---- MODULE Spec2Model ----
(***************************************************************************)
(* Model of the AI Icarus V2 backend: the FastAPI service of               *)
(* backend/main.py (health, root, config and chat handlers around the      *)
(* process-wide azure_client handle) and the KQL syntax pre-check of       *)
(* backend/agents/kql_assistant_agent.py.                                  *)
(*                                                                         *)
(* Python values are encoded uniformly: an Optional value is the empty     *)
(* tuple (None) or a one-element tuple holding the value; a str read from  *)
(* the environment is a TLA+ string; a query string is a tuple of          *)
(* characters; text returned by validate_kql_syntax is a tuple of tokens.  *)
(***************************************************************************)
EXTENDS Integers, Sequences, FiniteSets, TLC

VARIABLES
    environ,       \* os.environ as seen at import time, plus whether AzureOpenAI() raises
    azure_client,  \* the module-level handle: None or Some("AzureOpenAI")
    request,       \* the request most recently given to a handler
    response,      \* what that handler answered: status code and body / detail
    upstream,      \* calls azure_client.chat.completions.create received while handling it
    kql_query,     \* argument of the most recent validate_kql_syntax call
    kql_result     \* text that call returned, as a tuple of tokens

vars == <<environ, azure_client, request, response, upstream, kql_query, kql_result>>
service_vars == <<environ, azure_client, request, response, upstream>>
kql_vars == <<kql_query, kql_result>>

(***************************************************************************)
(* Bounds of the model.                                                    *)
(***************************************************************************)
MaxMessages == 2
MaxChoices == 2
MaxQueryLen == 4

None == << >>
Some(v) == <<v>>
IsNone(o) == o = None
Get(o) == o[1]

SeqsUpTo(S, n) == UNION {[1..k -> S] : k \in 0..n}

(***************************************************************************)
(* Startup: the module body of main.py.                                    *)
(***************************************************************************)
\* Truth value of an Optional: None and the empty str are false, any other
\* str and any object without __bool__/__len__ (the client) are true.
Truthy(o) == ~IsNone(o) /\ Get(o) # ""

EnvValues == {None, Some(""), Some("set")}

Environments ==
    [AZURE_OPENAI_ENDPOINT : EnvValues,
     AZURE_OPENAI_API_KEY : EnvValues,
     AZURE_OPENAI_DEPLOYMENT_NAME : {Some("gpt-4o")},
     AZURE_CLOUD_ENVIRONMENT : {None},
     client_ctor_raises : BOOLEAN]

getenv(env, name, default) == IF IsNone(env[name]) THEN default ELSE env[name]

\* azure_client = None; try: if endpoint: if api_key: azure_client = AzureOpenAI(...)
\* except Exception: print warning (the handle keeps its None)
InitClient(env) ==
    IF Truthy(env.AZURE_OPENAI_ENDPOINT)
    THEN IF Truthy(env.AZURE_OPENAI_API_KEY)
         THEN IF env.client_ctor_raises THEN None ELSE Some("AzureOpenAI")
         ELSE None
    ELSE None

(***************************************************************************)
(* Request and response models.                                            *)
(***************************************************************************)
Roles == {"system", "user"}
Contents == {"Hi"}
Temperatures == {Some("0.7"), Some("0.2")}   \* floats, kept as their literals
TokenLimits == {Some(1000), None}

\* class ChatMessage(BaseModel): role: str; content: str
ChatMessage == [cls : {"ChatMessage"}, role : Roles, content : Contents]

\* class ChatRequest(BaseModel): messages, temperature, max_tokens
ChatRequest ==
    [cls : {"ChatRequest"},
     messages : SeqsUpTo(ChatMessage, MaxMessages),
     temperature : Temperatures,
     max_tokens : TokenLimits]

\* class ChatResponse(BaseModel): message: str; usage: Optional[dict] = None
\* Construction validates: message must be a str, so None raises ValidationError.
ChatResponseRaises(message, usage) == IsNone(message)
ChatResponse(message, usage) == [message |-> Get(message), usage |-> usage]

(***************************************************************************)
(* The upstream chat-completion service, seen from the caller: a call      *)
(* either raises (network, auth, quota) or returns a reply object.         *)
(***************************************************************************)
UpstreamErrors == {"Connection error.", "Error code: 429 - quota exceeded"}
CompletionTexts == {None, Some("Hello")}
\* response.usage: None, or a CompletionUsage object (counters need not add up)
Usages ==
    {None} \cup
    {Some(u) : u \in [cls : {"CompletionUsage"}, prompt_tokens : {5},
                      completion_tokens : {3}, total_tokens : {9}]}

UpstreamOutcomes ==
    [raises : {Some(e) : e \in UpstreamErrors}, choices : {<< >>}, usage : {None}]
    \cup
    [raises : {None}, choices : SeqsUpTo(CompletionTexts, MaxChoices), usage : Usages]

(***************************************************************************)
(* GET /health, GET / and GET /api/config.                                 *)
(***************************************************************************)
Get_(path) == [method |-> "GET", path |-> path, body |-> None]
Post(path, body) == [method |-> "POST", path |-> path, body |-> Some(body)]

\* variant: the flag reports the environment instead of the handle
health_check_body_Constant(client) ==
    [status |-> "healthy",
     service |-> "ai-icarus-v2-chatbot",
     version |-> "2.0.0",
     message |-> "AI Chatbot ready on Azure Government!",
     azure_openai_configured |-> TRUE]

health_check_body(client) ==
    [status |-> "healthy",
     service |-> "ai-icarus-v2-chatbot",
     version |-> "2.0.0",
     message |-> "AI Chatbot ready on Azure Government!",
     azure_openai_configured |-> ~IsNone(client)]

root_body ==
    [message |-> "Hello World from AI Icarus V2 Beta!",
     cloud |-> "Azure US Government",
     version |-> "1.0.0",
     docs |-> "/docs"]

get_config_body(client, env) ==
    [environment |-> getenv(env, "AZURE_CLOUD_ENVIRONMENT", Some("AzureUSGovernment")),
     version |-> "2.0.0",
     status |-> "operational",
     azure_openai_configured |-> ~IsNone(client),
     deployment |-> getenv(env, "AZURE_OPENAI_DEPLOYMENT_NAME", Some("gpt-4o-mini"))]

Answer(code, body) == [status_code |-> code, body |-> body]

health_check ==
    /\ request' = Get_("/health")
    /\ response' = Answer(200, health_check_body(azure_client))
    /\ upstream' = << >>
    /\ UNCHANGED <<environ, azure_client, kql_vars>>

root ==
    /\ request' = Get_("/")
    /\ response' = Answer(200, root_body)
    /\ upstream' = << >>
    /\ UNCHANGED <<environ, azure_client, kql_vars>>

get_config ==
    /\ request' = Get_("/api/config")
    /\ response' = Answer(200, get_config_body(azure_client, environ))
    /\ upstream' = << >>
    /\ UNCHANGED <<environ, azure_client, kql_vars>>

(***************************************************************************)
(* POST /api/chat.                                                         *)
(***************************************************************************)
\* variant: system messages are filtered out of the payload
ToOpenAIFormat_SkipSystem(messages) ==
    LET kept == SelectSeq(messages, LAMBDA m : m.role # "system")
    IN [i \in 1..Len(kept) |-> [role |-> kept[i].role, content |-> kept[i].content]]

\* messages = [{"role": msg.role, "content": msg.content} for msg in request.messages]
ToOpenAIFormat(messages) ==
    [i \in 1..Len(messages) |-> [role |-> messages[i].role, content |-> messages[i].content]]

\* the keyword arguments of azure_client.chat.completions.create(...)
CreateArgs(env, req) ==
    [model |-> Get(getenv(env, "AZURE_OPENAI_DEPLOYMENT_NAME", Some("gpt-4o-mini"))),
     messages |-> ToOpenAIFormat(req.messages),
     temperature |-> req.temperature,
     max_tokens |-> req.max_tokens]

\* variant: the total is recomputed locally instead of read from the reply
UsageInfo_Recomputed(usage) ==
    [prompt_tokens |-> usage.prompt_tokens,
     completion_tokens |-> usage.completion_tokens,
     total_tokens |-> usage.prompt_tokens + usage.completion_tokens]

\* usage_info = {"prompt_tokens": ..., "completion_tokens": ..., "total_tokens": ...}
UsageInfo(usage) ==
    [prompt_tokens |-> usage.prompt_tokens,
     completion_tokens |-> usage.completion_tokens,
     total_tokens |-> usage.total_tokens]

Raised(text) == [raised |-> Some(text), value |-> None]
Returned(value) == [raised |-> None, value |-> Some(value)]

\* variant: the usage mapping is built only when the reply has usage
\* (usage_info = None otherwise), which ChatResponse accepts
ExtractResponse_OptionalUsage(reply) ==
    IF Len(reply.choices) = 0
    THEN Raised("list index out of range")
    ELSE IF ChatResponseRaises(reply.choices[1], reply.usage)
    THEN Raised("1 validation error for ChatResponse")
    ELSE IF IsNone(reply.usage)
    THEN Returned(ChatResponse(reply.choices[1], None))
    ELSE Returned(ChatResponse(reply.choices[1], Some(UsageInfo(Get(reply.usage)))))

\* The body of the try block after the call returned `reply`: the exception it
\* raises, or the ChatResponse it returns.
ExtractResponse(reply) ==
    IF Len(reply.choices) = 0
    THEN Raised("list index out of range")
    ELSE IF IsNone(reply.usage)
    THEN Raised("'NoneType' object has no attribute 'prompt_tokens'")
    ELSE IF ChatResponseRaises(reply.choices[1], Some(UsageInfo(Get(reply.usage))))
    THEN Raised("1 validation error for ChatResponse")
    ELSE Returned(ChatResponse(reply.choices[1], Some(UsageInfo(Get(reply.usage)))))

\* The try block: the call, then the extraction.
TryForward(outcome) ==
    IF ~IsNone(outcome.raises) THEN Raised(Get(outcome.raises)) ELSE ExtractResponse(outcome)

HTTPException(code, detail) == Answer(code, [detail |-> detail])

NotConfiguredDetail ==
    "Azure OpenAI is not configured. Set AZURE_OPENAI_ENDPOINT and AZURE_OPENAI_API_KEY."

\* except Exception as e: raise HTTPException(500, f"Azure OpenAI API error: {str(e)}")
ChatAnswer(result) ==
    IF ~IsNone(result.raised)
    THEN HTTPException(500, "Azure OpenAI API error: " \o Get(result.raised))
    ELSE Answer(200, Get(result.value))

\* variant: a failed call is tried once more
ChatCalls_Retry(env, req, outcome) ==
    IF IsNone(outcome.raises)
    THEN <<[args |-> CreateArgs(env, req), outcome |-> outcome]>>
    ELSE <<[args |-> CreateArgs(env, req), outcome |-> outcome],
           [args |-> CreateArgs(env, req), outcome |-> outcome]>>

\* the calls the try block makes on the client: one, whatever it answers
ChatCalls(env, req, outcome) == <<[args |-> CreateArgs(env, req), outcome |-> outcome]>>

\* variant: the handler without its `if not azure_client` guard: the call on
\* None raises AttributeError inside the try block
chat_NoConfigCheck(req) ==
    /\ request' = Post("/api/chat", req)
    /\ IF ~Truthy(azure_client)
       THEN /\ response' = ChatAnswer(Raised("'NoneType' object has no attribute 'chat'"))
            /\ upstream' = << >>
       ELSE \E outcome \in UpstreamOutcomes :
            /\ upstream' = ChatCalls(environ, req, outcome)
            /\ response' = ChatAnswer(TryForward(outcome))
    /\ UNCHANGED <<environ, azure_client, kql_vars>>

\* variant: the handler drops the handle after a failed request
chat_ResetsClient(req) ==
    /\ request' = Post("/api/chat", req)
    /\ IF ~Truthy(azure_client)
       THEN /\ response' = HTTPException(503, NotConfiguredDetail)
            /\ upstream' = << >>
            /\ azure_client' = azure_client
       ELSE \E outcome \in UpstreamOutcomes :
            /\ upstream' = ChatCalls(environ, req, outcome)
            /\ response' = ChatAnswer(TryForward(outcome))
            /\ azure_client' = IF response'.status_code = 500 THEN None ELSE azure_client
    /\ UNCHANGED <<environ, kql_vars>>

\* The upstream is consulted only when the handler gets as far as the call.
chat(req) ==
    /\ request' = Post("/api/chat", req)
    /\ IF ~Truthy(azure_client)
       THEN /\ response' = HTTPException(503, NotConfiguredDetail)
            /\ upstream' = << >>
       ELSE \E outcome \in UpstreamOutcomes :
            /\ upstream' = ChatCalls(environ, req, outcome)
            /\ response' = ChatAnswer(TryForward(outcome))
    /\ UNCHANGED <<environ, azure_client, kql_vars>>

(***************************************************************************)
(* The service: import of main.py, then requests in any order.             *)
(***************************************************************************)
NoRequest == [method |-> "", path |-> "", body |-> None]
NoResponse == Answer(0, [detail |-> ""])

Init ==
    /\ environ \in Environments
    /\ azure_client = InitClient(environ)
    /\ request = NoRequest
    /\ response = NoResponse
    /\ upstream = << >>
    /\ kql_query = << >>
    /\ kql_result = << >>

Next ==
    \/ health_check
    \/ root
    \/ get_config
    \/ \E req \in ChatRequest : chat(req)

Spec == Init /\ [][Next]_vars

(***************************************************************************)
(* KQLAssistantAgent.validate_kql_syntax.                                  *)
(***************************************************************************)
Whitespace == {" ", "\t"}
Chars == Whitespace \cup {"(", ")", "a"}
Queries == SeqsUpTo(Chars, MaxQueryLen)

RECURSIVE lstrip(_)
lstrip(s) == IF s # << >> /\ Head(s) \in Whitespace THEN lstrip(Tail(s)) ELSE s

RECURSIVE rstrip(_)
rstrip(s) ==
    IF s # << >> /\ s[Len(s)] \in Whitespace THEN rstrip(SubSeq(s, 1, Len(s) - 1)) ELSE s

\* variant: strip(" "), which leaves tabs in place
RECURSIVE strip_SpacesOnly(_)
strip_SpacesOnly(s) ==
    IF s # << >> /\ Head(s) = " " THEN strip_SpacesOnly(Tail(s))
    ELSE IF s # << >> /\ s[Len(s)] = " " THEN strip_SpacesOnly(SubSeq(s, 1, Len(s) - 1))
    ELSE s

\* str.strip()
strip(s) == rstrip(lstrip(s))

\* str.count(c) for a one-character c
count(s, c) == Cardinality({i \in 1..Len(s) : s[i] = c})

\* variant: only a surplus of "(" is reported
Errors_SurplusOpenOnly(kql_q) ==
    (IF strip(kql_q) = << >> THEN <<"Query is empty">> ELSE << >>)
    \o
    (IF count(kql_q, "(") > count(kql_q, ")") THEN <<"Unmatched parentheses">> ELSE << >>)

\* variant: parentheses are checked for nesting, so a ")" before its "(" is reported
RECURSIVE Nested(_, _)
Nested(s, depth) ==
    IF s = << >> THEN depth = 0
    ELSE IF Head(s) = "(" THEN Nested(Tail(s), depth + 1)
    ELSE IF Head(s) = ")" THEN depth > 0 /\ Nested(Tail(s), depth - 1)
    ELSE Nested(Tail(s), depth)

Errors_Nesting(kql_q) ==
    (IF strip(kql_q) = << >> THEN <<"Query is empty">> ELSE << >>)
    \o
    (IF ~Nested(kql_q, 0) THEN <<"Unmatched parentheses">> ELSE << >>)

\* errors = []; the two checks, each appending, in this order
Errors(kql_q) ==
    (IF strip(kql_q) = << >> THEN <<"Query is empty">> ELSE << >>)
    \o
    (IF count(kql_q, "(") # count(kql_q, ")") THEN <<"Unmatched parentheses">> ELSE << >>)

\* Tokens of the returned text.
Punct(c) == [k |-> "punct", v |-> c]
Lit(w) == [k |-> "literal", v |-> w]
DQ(t) == [k |-> "double-quoted", v |-> t]
SQ(t) == [k |-> "single-quoted", v |-> t]

\* str(list) inside the f-string: the repr of each str (single quotes), comma separated
RECURSIVE ReprItems(_)
ReprItems(items) ==
    IF items = << >> THEN << >>
    ELSE IF Len(items) = 1 THEN <<SQ(items[1])>>
    ELSE <<SQ(items[1]), Punct(",")>> \o ReprItems(Tail(items))

ReprList(items) == <<Punct("[")>> \o ReprItems(items) \o <<Punct("]")>>

\* f'{{"valid": false, "errors": {errors}}}'
InvalidText(errors) ==
    <<Punct("{"), DQ("valid"), Punct(":"), Lit("false"), Punct(","), DQ("errors"), Punct(":")>>
    \o ReprList(errors) \o <<Punct("}")>>

\* '{"valid": true, "message": "Query syntax appears valid"}'
ValidText ==
    <<Punct("{"), DQ("valid"), Punct(":"), Lit("true"), Punct(","),
      DQ("message"), Punct(":"), DQ("Query syntax appears valid"), Punct("}")>>

validate_kql_syntax(kql_q) ==
    IF Errors(kql_q) # << >> THEN InvalidText(Errors(kql_q)) ELSE ValidText

\* One call of the tool on the query drawn at the start.
validate ==
    /\ kql_result = << >>
    /\ kql_result' = validate_kql_syntax(kql_query)
    /\ UNCHANGED <<kql_query, service_vars>>

\* The tool is a pure function of its argument: the query is drawn at the
\* start and the service side stays as it was after import.
InitKql ==
    /\ kql_query \in Queries
    /\ kql_result = << >>
    /\ environ \in {e \in Environments : InitClient(e) # None}
    /\ azure_client = InitClient(environ)
    /\ request = NoRequest
    /\ response = NoResponse
    /\ upstream = << >>

NextKql == validate

SpecKql == InitKql /\ [][NextKql]_vars

(***************************************************************************)
(* Reading the returned text: the value of a key, the strings of a list.   *)
(***************************************************************************)
IsStr(tok) == tok.k \in {"double-quoted", "single-quoted"}

\* position of the value of key `name`: the token after DQ(name) and ":"; 0 if absent
ValueAt(text, name) ==
    LET hits == {i \in 1..Len(text) : text[i] = DQ(name) /\ i + 2 <= Len(text)
                                      /\ text[i + 1] = Punct(":")}
    IN IF hits = {} THEN 0 ELSE (CHOOSE i \in hits : \A j \in hits : i <= j) + 2

HasKey(text, name) == ValueAt(text, name) # 0

ResultValid(text) == text[ValueAt(text, "valid")] = Lit("true")
ResultInvalid(text) == text[ValueAt(text, "valid")] = Lit("false")

\* the strings between "[" and "]" of the errors value, in order
RECURSIVE StrsFrom(_, _)
StrsFrom(text, i) ==
    IF i > Len(text) \/ text[i] = Punct("]") THEN << >>
    ELSE IF IsStr(text[i]) THEN <<text[i].v>> \o StrsFrom(text, i + 1)
    ELSE StrsFrom(text, i + 1)

ResultErrors(text) ==
    IF HasKey(text, "errors") THEN StrsFrom(text, ValueAt(text, "errors") + 1) ELSE << >>

ResultMessage(text) ==
    IF HasKey(text, "message") THEN Some(text[ValueAt(text, "message")].v) ELSE None

Range(f) == {f[i] : i \in DOMAIN f}

(***************************************************************************)
(* Properties of the chat endpoint.                                        *)
(***************************************************************************)
IsChat == request.path = "/api/chat"
ChatBody == Get(request.body)
Forwarded == IsChat /\ upstream # << >>

\* C1: a chat request handled while azure_client is None is answered 503 with
\* the "not configured" detail and no call reaches the upstream service,
\* whatever its messages, temperature and max_tokens.
C1_Unconfigured503 ==
    (IsChat /\ IsNone(azure_client)) =>
        /\ response.status_code = 503
        /\ response.body = [detail |-> NotConfiguredDetail]
        /\ upstream = << >>

C1_Witness ==
    /\ IsChat /\ IsNone(azure_client)
    /\ Len(ChatBody.messages) = MaxMessages
    /\ ChatBody.max_tokens = None
    /\ response.status_code = 503

\* C2: with a configured client, a chat request whose upstream call raises is
\* answered 500, the detail carries the text of the failure, the upstream was
\* called exactly once and the body holds no ChatResponse field.
C2_UpstreamFailure500 ==
    (IsChat /\ ~IsNone(azure_client) /\ upstream # << >>
            /\ ~IsNone(upstream[1].outcome.raises)) =>
        /\ Len(upstream) = 1
        /\ response.status_code = 500
        /\ DOMAIN response.body = {"detail"}
        /\ response.body.detail =
               "Azure OpenAI API error: " \o Get(upstream[1].outcome.raises)

C2_Witness ==
    /\ IsChat /\ ~IsNone(azure_client)
    /\ Len(upstream) = 1
    /\ upstream[1].outcome.raises = Some("Connection error.")
    /\ response.status_code = 500

\* C3: a chat request answered with a ChatResponse carries the text of
\* choices[0] of the upstream reply as message and exactly the reply's three
\* usage counters as usage; a reply with a first completion text and usage
\* counters is answered with such a ChatResponse.
C3_ResponseFromReply ==
    Forwarded =>
        LET reply == upstream[1].outcome IN
        /\ (/\ IsNone(reply.raises) /\ Len(reply.choices) >= 1
            /\ ~IsNone(reply.choices[1]) /\ ~IsNone(reply.usage))
           => response.status_code = 200
        /\ response.status_code = 200 =>
            /\ IsNone(reply.raises)
            /\ DOMAIN response.body = {"message", "usage"}
            /\ Some(response.body.message) = reply.choices[1]
            /\ ~IsNone(response.body.usage)
            /\ DOMAIN Get(response.body.usage)
                   = {"prompt_tokens", "completion_tokens", "total_tokens"}
            /\ Get(response.body.usage).prompt_tokens = Get(reply.usage).prompt_tokens
            /\ Get(response.body.usage).completion_tokens = Get(reply.usage).completion_tokens
            /\ Get(response.body.usage).total_tokens = Get(reply.usage).total_tokens

C3_Witness ==
    /\ Forwarded
    /\ response.status_code = 200
    /\ Len(upstream[1].outcome.choices) = MaxChoices
    /\ upstream[1].outcome.choices[1] = Some("Hello")
    /\ upstream[1].outcome.choices[MaxChoices] = None
    /\ response.body.message = "Hello"

\* C4: the messages submitted upstream are as many as request.messages, the
\* i-th carrying exactly the role and content of the i-th request message, and
\* the submitted temperature and max_tokens are the request's.
C4_PayloadPreserved ==
    Forwarded =>
        LET sent == upstream[1].args IN
        /\ Len(sent.messages) = Len(ChatBody.messages)
        /\ \A i \in 1..Len(ChatBody.messages) :
              /\ DOMAIN sent.messages[i] = {"role", "content"}
              /\ sent.messages[i].role = ChatBody.messages[i].role
              /\ sent.messages[i].content = ChatBody.messages[i].content
        /\ sent.temperature = ChatBody.temperature
        /\ sent.max_tokens = ChatBody.max_tokens

C4_Witness ==
    /\ Forwarded
    /\ Len(ChatBody.messages) = MaxMessages
    /\ ChatBody.messages[1].role = "system"
    /\ ChatBody.messages[MaxMessages].role = "user"
    /\ ChatBody.temperature = Some("0.2")
    /\ ChatBody.max_tokens = None
    /\ Len(upstream[1].args.messages) = MaxMessages

(***************************************************************************)
(* Properties of validate_kql_syntax.                                      *)
(***************************************************************************)
Called == kql_result # << >>
OnlyWhitespace(q) == \A i \in 1..Len(q) : q[i] \in Whitespace
Occurrences(q, c) == Len(SelectSeq(q, LAMBDA x : x = c))

\* C5: for a query of whitespace only (the empty string included) the result
\* has valid = false and its errors are exactly ["Query is empty"]; and for no
\* query do "Query is empty" and "Unmatched parentheses" appear together.
C5_WhitespaceOnly ==
    Called =>
        /\ OnlyWhitespace(kql_query) =>
              /\ ResultInvalid(kql_result)
              /\ ResultErrors(kql_result) = <<"Query is empty">>
        /\ ~({"Query is empty", "Unmatched parentheses"} \subseteq Range(ResultErrors(kql_result)))

C5_Witness ==
    /\ Called
    /\ Len(kql_query) = MaxQueryLen
    /\ OnlyWhitespace(kql_query)
    /\ "\t" \in Range(kql_query)
    /\ ResultErrors(kql_result) = <<"Query is empty">>

\* C6: for a query whose raw text holds different numbers of "(" and ")", the
\* result has valid = false and "Unmatched parentheses" among its errors.
C6_UnequalCounts ==
    (Called /\ Occurrences(kql_query, "(") # Occurrences(kql_query, ")")) =>
        /\ ResultInvalid(kql_result)
        /\ "Unmatched parentheses" \in Range(ResultErrors(kql_result))

C6_Witness ==
    /\ Called
    /\ Occurrences(kql_query, ")") > Occurrences(kql_query, "(")
    /\ Occurrences(kql_query, "(") > 0
    /\ Head(kql_query) \in Whitespace
    /\ ResultErrors(kql_result) = <<"Unmatched parentheses">>

\* C7: for a query with non-whitespace content and equal numbers of "(" and
\* ")", in any order, the result has valid = true, no errors and the message
\* "Query syntax appears valid"; valid is true exactly when there are no errors.
C7_EqualCountsValid ==
    Called =>
        /\ (~OnlyWhitespace(kql_query)
            /\ Occurrences(kql_query, "(") = Occurrences(kql_query, ")")) =>
              /\ ResultValid(kql_result)
              /\ ~HasKey(kql_result, "errors")
              /\ ResultMessage(kql_result) = Some("Query syntax appears valid")
        /\ ResultValid(kql_result) <=> ResultErrors(kql_result) = << >>
        /\ ResultValid(kql_result) <=> ~ResultInvalid(kql_result)

C7_Witness ==
    /\ Called
    /\ Len(kql_query) >= 2
    /\ SubSeq(kql_query, 1, 2) = <<")", "(">>
    /\ Occurrences(kql_query, "(") = 1
    /\ Occurrences(kql_query, ")") = 1
    /\ ResultValid(kql_result)

(***************************************************************************)
(* Properties of the service as a whole.                                   *)
(***************************************************************************)
\* C8: in every state GET /health can be served, and it answers 200 with
\* status "healthy", the service and version fields, and
\* azure_openai_configured telling whether the handle is configured.
C8_HealthAlways200 ==
    /\ ENABLED health_check
    /\ request.path = "/health" =>
          /\ response.status_code = 200
          /\ response.body.status = "healthy"
          /\ {"service", "version"} \subseteq DOMAIN response.body
          /\ response.body.azure_openai_configured = (azure_client # None)

C8_Witness ==
    /\ request.path = "/health"
    /\ azure_client = None
    /\ response.status_code = 200
    /\ response.body.azure_openai_configured = FALSE

\* C9: a chat request with an empty messages list is never forwarded upstream.
C9_NonEmptyMessagesForwarded ==
    Forwarded => Len(upstream[1].args.messages) >= 1

\* C10: the handle is configured exactly when endpoint and API key are both set
\* and the client was constructed, and no handler step changes the handle or
\* the environment it was built from, whatever the requests and their outcomes.
C10_HandleFixed ==
    /\ [](~IsNone(azure_client) <=>
            /\ environ.AZURE_OPENAI_ENDPOINT \notin {None, Some("")}
            /\ environ.AZURE_OPENAI_API_KEY \notin {None, Some("")}
            /\ ~environ.client_ctor_raises)
    /\ [][azure_client' = azure_client /\ environ' = environ]_vars

C10_Witness ==
    /\ IsChat
    /\ ~IsNone(azure_client)
    /\ response.status_code = 500
    /\ upstream # << >>

\* C11: with a configured client a chat request ends either with a complete
\* ChatResponse (a message text and a usage mapping holding the three counters)
\* or with the 500 error; a reply without a first completion, with a null
\* completion text or without usage ends with the 500 error.
C11_CompleteOr500 ==
    (IsChat /\ ~IsNone(azure_client)) =>
        LET reply == upstream[1].outcome
            complete ==
                /\ response.status_code = 200
                /\ DOMAIN response.body = {"message", "usage"}
                /\ response.body.message \in {Get(t) : t \in CompletionTexts \ {None}}
                /\ ~IsNone(response.body.usage)
                /\ DOMAIN Get(response.body.usage)
                       = {"prompt_tokens", "completion_tokens", "total_tokens"}
            failed ==
                /\ response.status_code = 500
                /\ DOMAIN response.body = {"detail"}
            malformed ==
                /\ IsNone(reply.raises)
                /\ \/ Len(reply.choices) = 0
                   \/ IsNone(reply.choices[1])
                   \/ IsNone(reply.usage)
        IN /\ Len(upstream) = 1
           /\ complete \/ failed
           /\ ~(complete /\ failed)
           /\ malformed => failed

C11_Witness ==
    /\ IsChat /\ ~IsNone(azure_client)
    /\ Len(upstream) = 1
    /\ IsNone(upstream[1].outcome.raises)
    /\ Len(upstream[1].outcome.choices) = MaxChoices
    /\ upstream[1].outcome.choices[1] = Some("Hello")
    /\ IsNone(upstream[1].outcome.usage)
    /\ response.status_code = 500

====
